---- MODULE Spec2Model ----
(***************************************************************************)
(* Model of src/main.py, the ArXiv paper tracker: one process invocation   *)
(* runs main(), which discovers recent papers, and for each one retrieves  *)
(* the PDF, pauses, asks the inference service for an analysis, records    *)
(* the pair in the run report and deletes the PDF; it then appends the     *)
(* report to conclusion.md and mails it.  The working directory and        *)
(* conclusion.md persist from one invocation to the next.                  *)
(***************************************************************************)
EXTENDS Integers, Sequences, FiniteSets, TLC

(* ------------------------------ bounds --------------------------------- *)
\* paper records known to the search service
NPapers == 4
\* process invocations in one behaviour
MaxRuns == 2
\* largest wall-clock reading; the clock counts half days from day 0
MaxTime == 3
\* entries of the comma-separated EMAIL_TO setting
MaxRecipients == 2

(* -------------------------- program constants -------------------------- *)
\* MAX_PAPERS: 50 in the source, scaled down to the size of the catalogue
MAX_PAPERS == 2
\* timedelta(days=2) of get_recent_papers
WINDOW_DAYS == 2
CATEGORIES == {"cs.AR", "cs.AI"}
PAPERS_DIR == "papers"

None == [none |-> TRUE]
Papers == 1..NPapers

(* ------------------------- the search service -------------------------- *)
AllCategories == <<"cs.AR", "cs.LG", "cs.AI">>
\* submission timestamp (in half days, the oldest record two days before day
\* 0) and category of the record with identifier p
published(p) == p - 5
category(p) == AllCategories[((p - 1) % Len(AllCategories)) + 1]
\* old-style identifiers hold a "/" (cs/0601001), new-style ones do not
get_short_id(p) ==
  IF p % 2 = 0 THEN <<"cs", "/", ToString(p)>> ELSE <<"2401", ".", ToString(p)>>

\* strftime('%Y%m%d'): the calendar date of a clock reading
Date(t) == t \div 2
\* a day's first and last instant: {date}000000 and {date}235959
FirstTick(d) == d * 2
LastTick(d) == d * 2 + 1
\* timedelta(days=n)
Days(n) == n * 2

RECURSIVE SortDescending(_)
SortDescending(S) ==
  IF S = {} THEN <<>>
  ELSE LET newest == CHOOSE p \in S :
                       \A q \in S : published(q) < published(p)
                                    \/ (published(q) = published(p) /\ q <= p)
       IN <<newest>> \o SortDescending(S \ {newest})

Truncate(s, n) == IF Len(s) <= n THEN s ELSE SubSeq(s, 1, n)

\* arxiv.Search(query, max_results, SubmittedDate, Descending).results():
\* the records of the catalogue that match the query, newest first, cut at
\* max_results
arxiv_search(q, catalogue) ==
  Truncate(SortDescending({p \in catalogue :
                             /\ category(p) \in q.cats
                             /\ q.from <= published(p)
                             /\ published(p) <= q.to}),
           q.max)

(* --------------------------- get_recent_papers ------------------------- *)
WrongWindowQuery(categories, max_results, today) ==
  [cats |-> categories,
   from |-> FirstTick(Date(today - Days(5))),
   to   |-> LastTick(Date(today)),
   max  |-> max_results]

\* date_range = submittedDate:[{start_date}000000 TO {end_date}235959]
RecentQuery(categories, max_results, today) ==
  [cats |-> categories,
   from |-> FirstTick(Date(today - Days(WINDOW_DAYS))),
   to   |-> LastTick(Date(today)),
   max  |-> max_results]

get_recent_papers(categories, max_results, today, catalogue) ==
  arxiv_search(RecentQuery(categories, max_results, today), catalogue)

(* ------------------------------ download_paper ------------------------- *)
Replace(s, old, new) == [k \in 1..Len(s) |-> IF s[k] = old THEN new ELSE s[k]]
\* output_dir / f"{paper.get_short_id().replace('/', '_')}.pdf"
PdfPath(output_dir, p) ==
  [dir |-> output_dir, name |-> Replace(get_short_id(p), "/", "_") \o <<".pdf">>]
Files == {PdfPath(PAPERS_DIR, p) : p \in Papers}

\* what paper.download_pdf can do: write the whole file, fail before it
\* writes anything, or fail after it wrote part of the file
TransferOutcomes == {"ok", "fail", "fail_partial"}

Transfer(d, path, outcome) ==
  CASE outcome = "ok" ->
         [path |-> path, disk |-> [d EXCEPT ![path] = "full"],
          transfers |-> 1, error |-> FALSE, raised |-> FALSE]
    [] outcome = "fail_partial" ->
         [path |-> None, disk |-> [d EXCEPT ![path] = "partial"],
          transfers |-> 1, error |-> TRUE, raised |-> FALSE]
    [] OTHER ->
         [path |-> None, disk |-> d,
          transfers |-> 1, error |-> TRUE, raised |-> FALSE]

download_always_transfers(d, path, outcome) == Transfer(d, path, outcome)

download_raises(d, path, outcome) ==
  IF d[path] # "absent"
  THEN [path |-> path, disk |-> d, transfers |-> 0, error |-> FALSE, raised |-> FALSE]
  ELSE [Transfer(d, path, outcome) EXCEPT !.raised = (outcome # "ok")]

\* download_paper on the file system d: the returned path (or None), the file
\* system afterwards, the number of transfers started, whether an error was
\* logged and whether an exception left the function (never: it is caught)
download_paper(d, path, outcome) ==
  IF d[path] # "absent"
  THEN [path |-> path, disk |-> d, transfers |-> 0, error |-> FALSE, raised |-> FALSE]
  ELSE Transfer(d, path, outcome)

(* ---------------------- analyze_paper_with_deepseek -------------------- *)
AnalysisText == "analysis"
\* f"**论文分析出错**: {str(e)}"
ErrorText == "**analysis error**"

analyze_paper_with_deepseek(outcome) ==
  IF outcome = "ok" THEN [text |-> AnalysisText, raised |-> FALSE, requests |-> 1]
  ELSE [text |-> ErrorText, raised |-> FALSE, requests |-> 1]

(* ------------------------------- delete_pdf ---------------------------- *)
delete_keeps_file(d, path, outcome) ==
  [disk |-> d, result |-> IF d[path] = "absent" THEN "missing" ELSE "ok",
   raised |-> FALSE]

\* delete_pdf: unlink when the file exists; a failing unlink is logged, not
\* raised
delete_pdf(d, path, outcome) ==
  IF d[path] # "absent"
  THEN IF outcome = "ok"
       THEN [disk |-> [d EXCEPT ![path] = "absent"], result |-> "ok",
             raised |-> FALSE]
       ELSE [disk |-> d, result |-> "fail", raised |-> FALSE]
  ELSE [disk |-> d, result |-> "missing", raised |-> FALSE]

(* ----------------- write_to_conclusion, format_email_content ----------- *)
Entry(pa) == [kind |-> "paper", id |-> pa[1], text |-> pa[2]]
Entries(report) == [k \in 1..Len(report) |-> Entry(report[k])]
\* "## ArXiv论文 - 最近5天 (截至 {today})" and the paper entries
Section(report, today) ==
  <<[kind |-> "section", id |-> Date(today), text |-> ""]>> \o Entries(report)

open_truncating(old, written) == written

\* open(CONCLUSION_FILE, 'a'): what was written lands after the old content
open_append(old, written) == old \o written

\* write_to_conclusion.  outcome is the number of records written before the
\* write fails: -1 when open fails, Len(section) when nothing fails.  A
\* failure is not caught.
write_to_conclusion(exists, old, report, today, outcome) ==
  LET section == Section(report, today)
  IN IF outcome = -1
     THEN [exists |-> exists, log |-> old, written |-> <<>>, raised |-> TRUE]
     ELSE [exists  |-> TRUE,
           log     |-> open_append(old, SubSeq(section, 1, outcome)),
           written |-> SubSeq(section, 1, outcome),
           raised  |-> outcome < Len(section)]
WriteOutcomes(report) == -1..(Len(report) + 1)

\* "## 今日ArXiv论文分析报告 ({today})" and the paper entries
format_email_content(report, today) ==
  <<[kind |-> "report", id |-> Date(today), text |-> ""]>> \o Entries(report)

(* --------------------------------- send_email -------------------------- *)
Settings == {"SMTP_SERVER", "SMTP_PORT", "SMTP_USERNAME", "SMTP_PASSWORD",
             "EMAIL_FROM"}
\* the settings that hold a truthy value: all of them, or all but one, or none
Configs == {Settings} \cup {Settings \ {s} : s \in Settings} \cup {{}}

\* entries of the EMAIL_TO setting between its commas, and str.strip on them
RawEntries == {"", " ", "a@x", " a@x ", "b@x"}
strip(e) == CASE e \in {"", " "} -> ""
              [] e \in {"a@x", " a@x "} -> "a@x"
              [] OTHER -> e
RECURSIVE SeqsUpTo(_, _)
SeqsUpTo(S, n) ==
  IF n = 0 THEN {<<>>}
  ELSE LET shorter == SeqsUpTo(S, n - 1)
       IN shorter \cup {Append(s, e) : s \in {t \in shorter : Len(t) = n - 1}, e \in S}
NonEmpty(e) == e # ""
\* [email.strip() for email in os.getenv("EMAIL_TO", "").split(",") if email.strip()]
ParseEmailTo(raw) == SelectSeq([k \in 1..Len(raw) |-> strip(raw[k])], NonEmpty)
RecipientLists == {ParseEmailTo(raw) : raw \in SeqsUpTo(RawEntries, MaxRecipients)}

RECURSIVE Join(_, _)
\* sep.join(items)
Join(sep, items) ==
  IF Len(items) = 0 THEN <<>>
  ELSE IF Len(items) = 1 THEN items
  ELSE <<items[1], sep>> \o Join(sep, Tail(items))

mail_ready_any(config, recipients) == config # {} /\ recipients # <<>>

\* all([SMTP_SERVER, SMTP_PORT, SMTP_USERNAME, SMTP_PASSWORD, EMAIL_FROM])
\* and EMAIL_TO
mail_ready(config, recipients) == config = Settings /\ recipients # <<>>

Message(recipients, content, today) ==
  [From |-> "EMAIL_FROM", To |-> Join(", ", recipients), Subject |-> Date(today),
   body |-> [shell |-> "html", content |-> content]]

\* the SMTP session (connect, starttls, login, send_message) succeeds or fails
SmtpOutcomes == {"ok", "fail"}

send_email_escalates(config, recipients, content, today, outcome) ==
  IF ~mail_ready(config, recipients)
  THEN [connects |-> 0, sent |-> <<>>, logged |-> "skip", raised |-> FALSE]
  ELSE IF outcome = "ok"
  THEN [connects |-> 1, sent |-> <<Message(recipients, content, today)>>,
        logged |-> "sent", raised |-> FALSE]
  ELSE [connects |-> 1, sent |-> <<>>, logged |-> "error", raised |-> TRUE]

\* send_email: the connections opened, the messages submitted, what was
\* logged and whether an exception left the function (never: it is caught)
send_email(config, recipients, content, today, outcome) ==
  IF ~mail_ready(config, recipients)
  THEN [connects |-> 0, sent |-> <<>>, logged |-> "skip", raised |-> FALSE]
  ELSE IF outcome = "ok"
  THEN [connects |-> 1, sent |-> <<Message(recipients, content, today)>>,
        logged |-> "sent", raised |-> FALSE]
  ELSE [connects |-> 1, sent |-> <<>>, logged |-> "error", raised |-> FALSE]

(* ----------------------------- main: branching ------------------------- *)
after_discover_no_return(ps) == IF ps = <<>> THEN "write_log" ELSE "download"

\* if not papers: return
after_discover(ps) == IF ps = <<>> THEN "done" ELSE "download"

after_download_always(path) == "sleep"

\* if pdf_path: ... (otherwise on to the next paper)
after_download(path) == IF path # None THEN "sleep" ELSE "next"

append_unless_failed(report, p, text) ==
  IF text = ErrorText THEN report ELSE Append(report, <<p, text>>)

\* papers_analyses.append((paper, analysis))
append_analysis(report, p, text) == Append(report, <<p, text>>)

(* -------------------------------- the state ---------------------------- *)
VARIABLES
  run,              \* number of this process invocation
  now,              \* wall clock of this invocation, which is short against
                    \* the clock's unit: every datetime.now() of a run reads it
  catalogue,        \* the records the search service holds
  config,           \* the mail settings that hold a value
  EMAIL_TO,         \* the parsed recipient list
  disk,             \* PAPERS_DIR: file -> "absent" | "partial" | "full"
  logExists,        \* conclusion.md exists
  log,              \* content of conclusion.md
  pc,               \* position of main()
  query,            \* the query sent to the search service (None before)
  papers,           \* main's papers
  i,                \* loop index of main, 1-based
  pdf_path,         \* main's pdf_path of the current paper
  analysis,         \* main's analysis of the current paper (NoText before)
  papers_analyses,  \* the run report
  email_content,    \* main's email_content (NotBuilt before it is built)
  sent,             \* messages submitted to the mail transport in this run
  connects,         \* connections opened to the mail transport in this run
  errors,           \* kinds of conditions logged as errors in this run
  hist,             \* per paper, what this run did for it
  held,             \* files a download_paper call returned and nothing deleted since
  logBefore,        \* conclusion.md as this run found it: [exists, log]
  writes,           \* what each write_to_conclusion call wrote, in call order
  logWrite,         \* "none" | "ok" | "failed": this run's write_to_conclusion
  notify            \* "none" | "skip" | "sent" | "error": this run's send_email

vars == <<run, now, catalogue, config, EMAIL_TO, disk, logExists, log, pc, query, papers, i,
          pdf_path, analysis, papers_analyses, email_content, sent, connects,
          errors, hist, held, logBefore, writes, logWrite, notify>>

\* what survives a process invocation
world == <<catalogue, config, EMAIL_TO, disk, logExists, log, held, writes>>
\* the finalize stage's own state
final == <<email_content, sent, connects, logWrite, notify>>

NotBuilt == <<>>
NoText == ""
NoHist == [steps |-> <<>>, dl |-> "none", transfers |-> 0, requests |-> 0,
           infer |-> "none", del |-> "none"]

paper == papers[i]
path == PdfPath(PAPERS_DIR, paper)

\* a fresh checkout: no conclusion.md, an empty PAPERS_DIR
Fresh(times, catalogues, configs, recipients) ==
  /\ run = 1
  /\ now \in times
  /\ catalogue \in catalogues
  /\ config \in configs
  /\ EMAIL_TO \in recipients
  /\ disk = [f \in Files |-> "absent"]
  /\ logExists = FALSE
  /\ log = <<>>
  /\ pc = "discover"
  /\ query = None
  /\ papers = <<>>
  /\ i = 0
  /\ pdf_path = None
  /\ analysis = NoText
  /\ papers_analyses = <<>>
  /\ email_content = NotBuilt
  /\ sent = <<>>
  /\ connects = 0
  /\ errors = {}
  /\ hist = [p \in Papers |-> NoHist]
  /\ held = {}
  /\ logBefore = [exists |-> FALSE, log |-> <<>>]
  /\ writes = <<>>
  /\ logWrite = "none"
  /\ notify = "none"

(* --------------------------------- main -------------------------------- *)
\* papers = get_recent_papers(CATEGORIES, MAX_PAPERS); papers_analyses = [].
\* A failing search is not caught.
Discover ==
  /\ pc = "discover"
  /\ \E outcome \in {"ok", "fail"} :
       IF outcome = "fail"
       THEN /\ pc' = "aborted"
            /\ papers' = <<>>
            /\ i' = 0
       ELSE LET found == get_recent_papers(CATEGORIES, MAX_PAPERS, now, catalogue)
            IN /\ papers' = found
               /\ pc' = after_discover(found)
               /\ i' = IF found = <<>> THEN 0 ELSE 1
  /\ query' = RecentQuery(CATEGORIES, MAX_PAPERS, now)
  /\ UNCHANGED <<run, now, world, final, pdf_path, analysis, papers_analyses,
                 errors, hist, logBefore>>

\* the end of one iteration of the for loop
Advance(k) ==
  IF k < Len(papers) THEN /\ pc' = "download" /\ i' = k + 1
  ELSE /\ pc' = "write_log" /\ i' = k

\* pdf_path = download_paper(paper, PAPERS_DIR); if pdf_path: ...
Download ==
  /\ pc = "download"
  /\ \E outcome \in TransferOutcomes :
       LET r == download_paper(disk, path, outcome)
           goes == after_download(r.path)
       IN /\ disk' = r.disk
          /\ pdf_path' = r.path
          /\ errors' = IF r.error THEN errors \cup {"download"} ELSE errors
          /\ held' = IF r.path # None THEN held \cup {path} ELSE held
          /\ hist' = [hist EXCEPT ![paper] =
                        [@ EXCEPT !.steps = Append(@, "retrieve"),
                                  !.dl = IF r.path # None THEN "path" ELSE "nodoc",
                                  !.transfers = @ + r.transfers]]
          /\ IF r.raised THEN pc' = "aborted" /\ i' = i
             ELSE IF goes = "next" THEN Advance(i)
             ELSE pc' = goes /\ i' = i
  /\ UNCHANGED <<run, now, catalogue, config, EMAIL_TO, logExists, log, writes,
                 query, papers, analysis, papers_analyses, final, logBefore>>

\* time.sleep(2)
Sleep ==
  /\ pc = "sleep"
  /\ pc' = "analyze"
  /\ hist' = [hist EXCEPT ![paper].steps = Append(@, "pause")]
  /\ UNCHANGED <<run, now, world, final, query, papers, i, pdf_path, analysis,
                 papers_analyses, errors, logBefore>>

\* analysis = analyze_paper_with_deepseek(pdf_path, paper)
Analyze ==
  /\ pc = "analyze"
  /\ \E outcome \in {"ok", "fail"} :
       LET r == analyze_paper_with_deepseek(outcome)
       IN /\ analysis' = r.text
          /\ errors' = IF outcome = "fail" THEN errors \cup {"analyze"} ELSE errors
          /\ hist' = [hist EXCEPT ![paper] =
                        [@ EXCEPT !.steps = Append(@, "inference"),
                                  !.requests = @ + r.requests,
                                  !.infer = outcome]]
          /\ pc' = IF r.raised THEN "aborted" ELSE "append"
  /\ UNCHANGED <<run, now, world, final, query, papers, i, pdf_path,
                 papers_analyses, logBefore>>

\* papers_analyses.append((paper, analysis))
AppendReport ==
  /\ pc = "append"
  /\ papers_analyses' = append_analysis(papers_analyses, paper, analysis)
  /\ hist' = [hist EXCEPT ![paper].steps = Append(@, "append")]
  /\ pc' = "delete"
  /\ UNCHANGED <<run, now, world, final, query, papers, i, pdf_path, analysis,
                 errors, logBefore>>

\* delete_pdf(pdf_path), then the next iteration
DeletePdf ==
  /\ pc = "delete"
  /\ \E outcome \in {"ok", "fail"} :
       LET r == delete_pdf(disk, pdf_path, outcome)
       IN /\ disk' = r.disk
          /\ errors' = IF r.result = "fail" THEN errors \cup {"delete"} ELSE errors
          /\ held' = IF r.disk[pdf_path] = "absent" THEN held \ {pdf_path} ELSE held
          /\ hist' = [hist EXCEPT ![paper] =
                        [@ EXCEPT !.steps = Append(@, "delete"),
                                  !.del = r.result]]
          /\ IF r.raised THEN pc' = "aborted" /\ i' = i ELSE Advance(i)
  /\ UNCHANGED <<run, now, catalogue, config, EMAIL_TO, logExists, log, writes,
                 query, papers, pdf_path, analysis, papers_analyses, final,
                 logBefore>>

\* write_to_conclusion(papers_analyses)
WriteLog ==
  /\ pc = "write_log"
  /\ \E outcome \in WriteOutcomes(papers_analyses) :
       LET r == write_to_conclusion(logExists, log, papers_analyses, now, outcome)
       IN /\ logExists' = r.exists
          /\ log' = r.log
          /\ writes' = Append(writes, r.written)
          /\ logWrite' = IF r.raised THEN "failed" ELSE "ok"
          /\ pc' = IF r.raised THEN "aborted" ELSE "format"
  /\ UNCHANGED <<run, now, catalogue, config, EMAIL_TO, disk, held, query, papers, i,
                 pdf_path, analysis, papers_analyses, email_content, sent,
                 connects, notify, errors, hist, logBefore>>

\* email_content = format_email_content(papers_analyses)
FormatEmail ==
  /\ pc = "format"
  /\ email_content' = format_email_content(papers_analyses, now)
  /\ pc' = "notify"
  /\ UNCHANGED <<run, now, world, query, papers, i, pdf_path, analysis,
                 papers_analyses, sent, connects, logWrite, notify, errors, hist,
                 logBefore>>

\* send_email(email_content), then main returns
SendEmail ==
  /\ pc = "notify"
  /\ \E outcome \in SmtpOutcomes :
       LET r == send_email(config, EMAIL_TO, email_content, now, outcome)
       IN /\ connects' = connects + r.connects
          /\ sent' = sent \o r.sent
          /\ notify' = r.logged
          /\ errors' = CASE r.logged = "skip" -> errors \cup {"mail_config"}
                         [] r.logged = "error" -> errors \cup {"mail_send"}
                         [] OTHER -> errors
          /\ pc' = IF r.raised THEN "aborted" ELSE "done"
  /\ UNCHANGED <<run, now, world, query, papers, i, pdf_path, analysis,
                 papers_analyses, email_content, logWrite, hist, logBefore>>

\* the process has ended; it is invoked again, at the same time or later
NextRun ==
  /\ pc \in {"done", "aborted"}
  /\ run < MaxRuns
  /\ run' = run + 1
  /\ now' \in now..MaxTime
  /\ pc' = "discover"
  /\ query' = None
  /\ papers' = <<>>
  /\ i' = 0
  /\ pdf_path' = None
  /\ analysis' = NoText
  /\ papers_analyses' = <<>>
  /\ email_content' = NotBuilt
  /\ sent' = <<>>
  /\ connects' = 0
  /\ errors' = {}
  /\ hist' = [p \in Papers |-> NoHist]
  /\ logBefore' = [exists |-> logExists, log |-> log]
  /\ logWrite' = "none"
  /\ notify' = "none"
  /\ UNCHANGED world

\* one invocation: main() from its first statement to its return
Next == \/ Discover \/ Download \/ Sleep \/ Analyze \/ AppendReport
        \/ DeletePdf \/ WriteLog \/ FormatEmail \/ SendEmail

\* every clock reading, catalogue of records submitted so far and mail
\* configuration
Init ==
  /\ Fresh(0..MaxTime, SUBSET Papers, Configs, RecipientLists)
  /\ \A p \in catalogue : published(p) <= now

Spec == Init /\ [][Next]_vars

\* the interpreter runs main() to its end: a step that can be taken is taken.
\* Mail is either not configured at all or configured in full.
FairInit ==
  /\ Fresh(0..MaxTime, SUBSET Papers, {{}, Settings}, {<<>>, <<"a@x", "b@x">>})
  /\ \A p \in catalogue : published(p) <= now
FairSpec == FairInit /\ [][Next]_vars /\ WF_vars(Next)

\* the scheduled job: a configured deployment invoked again and again, the
\* service holding every record
RunsInit ==
  Fresh({0}, {{p \in Papers : published(p) <= 0}}, {Settings}, {<<"a@x", "b@x">>})
RunsNext == Next \/ NextRun
RunsSpec == RunsInit /\ [][RunsNext]_vars

(* ------------------------- vocabulary of the claims -------------------- *)
Range(s) == {s[k] : k \in DOMAIN s}
IsPrefix(s, t) == Len(s) <= Len(t) /\ s = SubSeq(t, 1, Len(s))
\* what this run's write_to_conclusion added to conclusion.md
RunSection == SubSeq(log, Len(logBefore.log) + 1, Len(log))
InReport(p) == \E pa \in Range(papers_analyses) : pa[1] = p
InSection(p) == \E e \in Range(RunSection) : e.kind = "paper" /\ e.id = p
InBody(p) ==
  \/ \E e \in Range(email_content) : e.kind = "paper" /\ e.id = p
  \/ \E m \in Range(sent) : \E e \in Range(m.body.content) :
       e.kind = "paper" /\ e.id = p
Discovered == Range(papers)
AfterLoop == pc \in {"write_log", "format", "notify", "done"} \/ logWrite # "none"
Ended == pc \in {"done", "aborted"}

\* C1: a paper whose download_paper call returned None is never analysed in
\* that run and has no entry in the run report, in the section the run writes
\* to conclusion.md or in the notification body.
C1_NoDocumentNoEntry ==
  \A p \in Papers :
    hist[p].dl = "nodoc" =>
      /\ hist[p].requests = 0
      /\ hist[p].infer = "none"
      /\ ~InReport(p)
      /\ ~InSection(p)
      /\ ~InBody(p)

\* a run that ended normally after one paper was retrieved and analysed and
\* another one's retrieval failed, with the log written and the mail sent
C1_Witness ==
  /\ pc = "done" /\ logWrite = "ok" /\ notify = "sent"
  /\ \E a, b \in Discovered :
       /\ hist[a].dl = "path" /\ InSection(a) /\ InBody(a)
       /\ hist[b].dl = "nodoc"

\* C2: when discovery returns an empty sequence, main() returns at once:
\* nothing is retrieved or analysed, conclusion.md is neither created nor
\* written, no notification is built or sent, and the process ends normally.
C2_EmptyDiscoveryGoesToDone ==
  (query # None /\ papers = <<>> /\ pc # "aborted") =>
    /\ pc = "done"
    /\ \A p \in Papers : hist[p] = NoHist
    /\ logWrite = "none" /\ writes = <<>>
    /\ log = logBefore.log /\ logExists = logBefore.exists
    /\ email_content = NotBuilt /\ notify = "none"
    /\ connects = 0 /\ sent = <<>>

\* discovery has returned no paper and the run is over
C2_Witness == query # None /\ papers = <<>> /\ pc = "done"

\* C3 as stated: after a non-empty discovery every run performs WRITE_LOG,
\* then NOTIFY, and ends in DONE.
C3_Original ==
  (Ended /\ papers # <<>>) =>
    (pc = "done" /\ logWrite = "ok" /\ notify # "none")

C3_Safety ==
  /\ \* nothing done for one paper ends the run: only a failing log write does
     (pc = "aborted" /\ papers # <<>>) => logWrite = "failed"
  /\ \* retrieval was attempted for every discovered paper
     (AfterLoop /\ papers # <<>>) =>
       \A p \in Discovered : hist[p].dl # "none" /\ hist[p].transfers <= 1
  /\ \* the log gains the section header and an entry per reported paper
     logWrite = "ok" => RunSection = Section(papers_analyses, now)
  /\ pc = "done" /\ papers # <<>> => logWrite = "ok" /\ notify # "none"

\* C3, amended: whatever happens to the single papers, the run started by a
\* non-empty discovery attempts retrieval for every paper and reaches
\* WRITE_LOG; when the log write does not fail it goes on to NOTIFY and DONE,
\* also when every retrieval failed (the log then gains a bare section
\* header); only a failing log write ends the run before NOTIFY.
C3_PerPaperFailuresNeverAbort ==
  /\ []C3_Safety
  /\ (pc = "download") ~> (pc = "write_log")
  /\ (pc = "write_log") ~> (logWrite # "none")
  /\ (logWrite = "ok") ~> (pc = "done" /\ notify # "none")

\* every retrieval of a two-paper run failed: the report is empty, the log
\* gained a bare section header and the run ended normally
C3_Witness ==
  /\ pc = "done" /\ Len(papers) = 2
  /\ \A p \in Discovered : hist[p].dl = "nodoc"
  /\ papers_analyses = <<>>
  /\ Len(RunSection) = 1 /\ RunSection[1].kind = "section"

RECURSIVE Concat(_)
Concat(chunks) ==
  IF chunks = <<>> THEN <<>> ELSE Head(chunks) \o Concat(Tail(chunks))

\* C4: conclusion.md is append-only: its content is what the
\* write_to_conclusion calls of all runs wrote, in call order, so each call
\* leaves the earlier content as an unchanged prefix; a call that succeeds
\* leaves the file in existence, created if it was absent.
C4_LogAppendOnly ==
  /\ log = Concat(writes)
  /\ IsPrefix(logBefore.log, log)
  /\ logBefore.exists => logExists
  /\ logWrite = "ok" =>
       /\ logExists
       /\ log = logBefore.log \o Section(papers_analyses, now)

\* the second run has appended its section, with a paper entry, behind the
\* first run's section, which created the file and also holds a paper entry
C4_Witness ==
  /\ run = 2 /\ logWrite = "ok" /\ Len(writes) = 2
  /\ Len(writes[1]) > 1 /\ Len(writes[2]) > 1
  /\ logBefore.log = writes[1]

\* C5 as stated: both finalize steps are carried out whatever the result of
\* the other one.
C5_Original ==
  (Ended /\ papers # <<>>) => (logWrite # "none" /\ notify # "none")

\* C5, amended: a failing notify step is isolated from the log write: it is
\* logged, the section the run appended stays in conclusion.md and the run
\* ends in DONE.  A failing log write is not isolated from notify: it ends
\* the run, and notify is not carried out.
C5_NotifyFailureIsolated ==
  /\ notify # "none" =>
       /\ pc = "done"
       /\ logWrite = "ok" /\ logExists
       /\ log = logBefore.log \o Section(papers_analyses, now)
  /\ notify = "error" => "mail_send" \in errors /\ sent = <<>>
  /\ logWrite = "failed" =>
       /\ pc = "aborted"
       /\ notify = "none" /\ email_content = NotBuilt
       /\ connects = 0 /\ sent = <<>>

\* the mail transport failed after the log write succeeded
C5_Witness ==
  /\ notify = "error" /\ connects = 1 /\ pc = "done"
  /\ Len(RunSection) > 1

\* the addresses of a To header: the items between the ", " separators
Addresses(to) == [k \in 1..((Len(to) + 1) \div 2) |-> to[2 * k - 1]]
Separators(to) == {to[2 * k] : k \in 1..(Len(to) \div 2)}
MailComplete == config = Settings /\ EMAIL_TO # <<>>

\* C6: send_email connects to the mail transport only when all five settings
\* hold a value and there is a recipient; otherwise it logs the condition,
\* opens no connection and returns, the log write of the run having
\* succeeded.  It submits at most one message per run, whose To header joins
\* all configured recipients.
C6_SendOnlyWhenConfigured ==
  /\ connects > 0 => MailComplete
  /\ (notify # "none" /\ ~MailComplete) =>
       /\ notify = "skip" /\ "mail_config" \in errors
       /\ connects = 0 /\ sent = <<>>
       /\ pc = "done" /\ logWrite = "ok"
  /\ (notify # "none" /\ MailComplete) => notify \in {"sent", "error"} /\ connects = 1
  /\ connects <= 1 /\ Len(sent) <= 1
  /\ notify = "sent" <=> Len(sent) = 1
  /\ \A m \in Range(sent) :
       /\ Addresses(m.To) = EMAIL_TO
       /\ Separators(m.To) \subseteq {", "}
       /\ Len(m.To) = 2 * Len(EMAIL_TO) - 1
       /\ m.body.content = email_content

\* the user name is unset, two recipients are configured: the run wrote the
\* log and skipped the mail
C6_Witness ==
  /\ notify = "skip" /\ pc = "done" /\ logWrite = "ok"
  /\ config = Settings \ {"SMTP_USERNAME"}
  /\ Len(EMAIL_TO) = 2

\* C7: a retrieved paper gets exactly one inference request in the run, also
\* when the request fails; a failed request yields the placeholder text, and
\* the paper appears with it in the run report, in the section written to
\* conclusion.md and in the notification body.
C7_OneRequestPlaceholderOnFailure ==
  \A p \in Papers :
    LET h == hist[p]
        text == IF h.infer = "fail" THEN ErrorText ELSE AnalysisText
        entry == [kind |-> "paper", id |-> p, text |-> text]
    IN /\ h.requests <= 1
       /\ h.requests = 1 <=> h.infer # "none"
       /\ (h.dl = "path" /\ (AfterLoop \/ p # paper \/ pc \in {"append", "delete"}))
            => h.requests = 1
       /\ h.infer # "none" =>
            /\ pc # "aborted" \/ logWrite = "failed"
            /\ (pc = "append" /\ p = paper) => analysis = text
            /\ (pc # "append" \/ p # paper) => <<p, text>> \in Range(papers_analyses)
            /\ logWrite = "ok" => entry \in Range(RunSection)
            /\ email_content # NotBuilt => entry \in Range(email_content)
            /\ \A m \in Range(sent) : entry \in Range(m.body.content)

\* the inference request of a retrieved paper failed, it was not repeated,
\* and the run wrote the log and sent the mail
C7_Witness ==
  /\ pc = "done" /\ notify = "sent" /\ logWrite = "ok"
  /\ \E p \in Discovered :
       /\ hist[p].infer = "fail" /\ hist[p].requests = 1
       /\ InSection(p) /\ InBody(p)

StepOrder == <<"retrieve", "pause", "inference", "append", "delete">>
\* the steps of the current paper that lie behind main's position
StepsAt(position) ==
  CASE position = "download" -> 0
    [] position = "sleep" -> 1
    [] position = "analyze" -> 2
    [] position = "append" -> 3
    [] position = "delete" -> 4
    [] OTHER -> 5
InLoop == pc \in {"download", "sleep", "analyze", "append", "delete"}
\* the iteration of the k-th discovered paper has ended
IterationOver(k) == AfterLoop \/ (InLoop /\ k < i)

\* C8: the steps for one paper happen in the order retrieve, pause,
\* inference, append, delete; no paper is begun before the one ahead of it
\* went through its deletion step; the deletion step follows a failed
\* inference as it follows a successful one; the file is there from retrieval
\* to the deletion step, and when its deletion did not fail it is gone at
\* every iteration boundary and at the end of the run, also when it was there
\* before the run.
C8_StepOrderAndCleanup ==
  /\ \A p \in Papers \ Discovered : hist[p].steps = <<>>
  /\ \A k \in 1..Len(papers) :
       LET p == papers[k]
           h == hist[p]
           file == PdfPath(PAPERS_DIR, p)
       IN /\ IsPrefix(h.steps, StepOrder)
          /\ IterationOver(k) =>
               /\ h.dl = "nodoc" => h.steps = <<"retrieve">>
               /\ h.dl = "path" =>
                    /\ h.steps = StepOrder
                    /\ h.infer \in {"ok", "fail"}
                    /\ h.del # "none"
                    /\ h.del # "fail" => disk[file] = "absent"
               /\ h.dl # "none"
          /\ (InLoop /\ k = i) =>
               /\ Len(h.steps) = StepsAt(pc)
               /\ pc # "download" => (h.dl = "path" /\ disk[file] # "absent")
          /\ (InLoop /\ k > i) => h.steps = <<>>

\* in the second run a file that the first run left behind was returned
\* without a transfer, its inference failed, and the deletion step removed it
C8_Witness ==
  /\ run = 2 /\ pc = "done"
  /\ \E p \in Discovered :
       /\ hist[p].transfers = 0 /\ hist[p].dl = "path"
       /\ hist[p].infer = "fail" /\ hist[p].del = "ok"
       /\ disk[PdfPath(PAPERS_DIR, p)] = "absent"

\* C9: a download_paper call that finds the file derived from the paper's
\* identifier returns its path, starts no transfer and leaves the file as it
\* is; so does a second call for a paper whose file an earlier call returned
\* and nothing deleted since.
C9_DownloadIdempotent ==
  [][(pc = "download" /\ (disk[path] # "absent" \/ path \in held)) =>
       /\ pdf_path' = path
       /\ disk' = disk
       /\ hist'[paper].transfers = hist[paper].transfers
       /\ hist'[paper].dl = "path"
       /\ errors' = errors]_vars

\* a download_paper call has returned, without a transfer, the whole file
\* that a call of an earlier run had transferred
C9_Witness ==
  /\ run = 2 /\ pc = "sleep"
  /\ hist[paper].transfers = 0 /\ pdf_path = path
  /\ disk[path] = "full" /\ path \in held

====
